---- MODULE Spec2Model ----
(***************************************************************************)
(* A model of the three views of the component gallery:                    *)
(*   ComponentCard (like/save toggles), Home (feed assembly) and Publish   *)
(*   (tag editing and the submit handler).                                 *)
(* The hosted data service is an external collaborator: every request made *)
(* to it completes with one of the outcomes of Outcomes, chosen by the     *)
(* environment.  An await splits a handler in two steps: the synchronous   *)
(* part up to the await, and the continuation run when the request is      *)
(* answered.  Continuations of different invocations interleave freely.    *)
(***************************************************************************)
EXTENDS Integers, Sequences, FiniteSets, TLC

VARIABLES
    user,          \* useAuth().user: NoUser or a user id
    \* ---- ComponentCard ----
    component,     \* the card's props.component
    isLiked, isSaved, likesCount, savesCount,   \* the card's useState cells
    cardReqs,      \* requests issued to the likes / saved_components tables, in
                   \* order, each with the data client's answer once it came
    cardToasts,    \* notices shown by the card, in order
    onLikeCalls, onSaveCalls,   \* how often the caller's callbacks were invoked
    \* ---- Home ----
    db,            \* the hosted tables as seen by the viewer's queries
    sortBy,        \* useState: 'newest' | 'trending' | 'saved'
    components,    \* useState: the feed list
    loading,       \* useState: the loading flag
    fetches,       \* fetchComponents invocations suspended at an await
    cardPending,   \* toggles of rendered cards suspended at their await, each
                   \* holding the fetchComponents closure it got as onLike/onSave
    homeToasts,    \* number of 'Failed to load components' notices shown
    fetchesStarted,\* number of fetchComponents invocations so far
    answer,        \* outcome of the request answered last
    \* ---- Publish ----
    formData,      \* useState: title, description, code, tags, tagInput
    previewImage,  \* useState: the chosen file, or NoFile
    pubLoading,    \* useState: the form's loading flag
    submit,        \* the handleSubmit invocation suspended at an await, if any
    pubReqs,       \* uploads and inserts issued by the form, in order, each with
                   \* the data client's answer once it came
    pubToasts,     \* notices shown by the form, in order
    location       \* the route shown, changed by navigate()

cardVars == <<component, isLiked, isSaved, likesCount, savesCount,
              cardReqs, cardToasts, onLikeCalls, onSaveCalls>>

homeVars == <<db, sortBy, components, loading, fetches, cardPending, homeToasts,
              fetchesStarted, answer>>

pubVars == <<formData, previewImage, pubLoading, submit, pubReqs, pubToasts,
             location>>

vars == <<user, cardVars, homeVars, pubVars>>

\* What the actions of one view leave alone: the state of the other views.
notCard == <<homeVars, pubVars>>
notHome == <<cardVars, pubVars>>
notPublish == <<cardVars, homeVars>>

----------------------------------------------------------------------------
(* Shared: the auth context and the data client *)

NoUser == "null"
Users == {"u1"}

\* How the data client answers a request: with data, with a returned error
\* value ({data: null, error}), or by rejecting the awaited promise.
Outcomes == {"ok", "error", "throw"}

\* Bound: toggle invocations on the card in one behaviour.
MaxToggles == 3

RemoveAt(s, i) == SubSeq(s, 1, i - 1) \o SubSeq(s, i + 1, Len(s))

Range(s) == {s[k] : k \in 1..Len(s)}

SignIn ==
    /\ user = NoUser
    /\ \E u \in Users : user' = u

SignOut ==
    /\ user # NoUser
    /\ user' = NoUser

----------------------------------------------------------------------------
(* ComponentCard *)

\* The props a card can be mounted with: (is_liked, likes_count) and
\* (is_saved, saves_count) as annotated by the feed.
CardProps ==
    { [id |-> 1, is_liked |-> l[1], likes_count |-> l[2],
       is_saved |-> s[1], saves_count |-> s[2]] :
        l \in {<<FALSE, 0>>, <<FALSE, 5>>, <<TRUE, 1>>, <<TRUE, 5>>},
        s \in {<<FALSE, 0>>, <<TRUE, 1>>} }

CardInit ==
    /\ component \in CardProps
    /\ isLiked = component.is_liked
    /\ isSaved = component.is_saved
    /\ likesCount = component.likes_count
    /\ savesCount = component.saves_count
    /\ cardReqs = <<>>
    /\ cardToasts = <<>>
    /\ onLikeCalls = 0
    /\ onSaveCalls = 0

\* Variant of ToggleRequest with the two branches swapped.
ToggleRequestInverted(table, flag) ==
    [table |-> table, op |-> IF flag THEN "insert" ELSE "delete",
     user_id |-> user, component_id |-> component.id, outcome |-> "pending"]

\* The request a toggle issues: delete the join row when the flag is set,
\* insert it otherwise.  outcome is the data client's answer, once it came.
ToggleRequest(table, flag) ==
    [table |-> table, op |-> IF flag THEN "delete" ELSE "insert",
     user_id |-> user, component_id |-> component.id, outcome |-> "pending"]

AuthNotices == {"Please sign in to like components",
                "Please sign in to save components"}

\* Toggle invocations so far: each issued a request or showed the
\* authentication notice.
Invocations ==
    Len(cardReqs) + Cardinality({k \in 1..Len(cardToasts) : cardToasts[k] \in AuthNotices})

\* The invocations of handleLike / handleSave suspended at their await.
Suspended(table) ==
    {i \in 1..Len(cardReqs) :
        cardReqs[i].table = table /\ cardReqs[i].outcome = "pending"}

\* Variant of HandleLike without the sign-in check.
HandleLikeNoAuthCheck ==
    /\ Invocations < MaxToggles
    /\ cardReqs' = Append(cardReqs, ToggleRequest("likes", isLiked))
    /\ UNCHANGED <<notCard, user, component, isLiked, isSaved, likesCount, savesCount,
                   cardToasts, onLikeCalls, onSaveCalls>>

\* handleLike up to its await.
HandleLike ==
    /\ Invocations < MaxToggles
    /\ IF user = NoUser
         THEN /\ cardToasts' = Append(cardToasts, "Please sign in to like components")
              /\ UNCHANGED cardReqs
         ELSE /\ cardReqs' = Append(cardReqs, ToggleRequest("likes", isLiked))
              /\ UNCHANGED cardToasts
    /\ UNCHANGED <<notCard, user, component, isLiked, isSaved, likesCount, savesCount,
                   onLikeCalls, onSaveCalls>>

\* handleSave up to its await.
HandleSave ==
    /\ Invocations < MaxToggles
    /\ IF user = NoUser
         THEN /\ cardToasts' = Append(cardToasts, "Please sign in to save components")
              /\ UNCHANGED cardReqs
         ELSE /\ cardReqs' = Append(cardReqs, ToggleRequest("saved_components", isSaved))
              /\ UNCHANGED cardToasts
    /\ UNCHANGED <<notCard, user, component, isLiked, isSaved, likesCount, savesCount,
                   onLikeCalls, onSaveCalls>>

\* The continuation of handleLike after its await, for the suspended
\* invocation i and the outcome o of its request.  Only a rejected promise
\* reaches the catch block; a returned error value is not inspected.
LikeSettled(i, o) ==
    /\ i \in Suspended("likes")
    /\ cardReqs' = [cardReqs EXCEPT ![i].outcome = o]
    /\ IF o = "throw"
         THEN /\ cardToasts' = Append(cardToasts, "Failed to update like")
              /\ UNCHANGED <<isLiked, likesCount, onLikeCalls>>
         ELSE /\ isLiked' = (cardReqs[i].op = "insert")
              /\ likesCount' = IF cardReqs[i].op = "insert"
                                 THEN likesCount + 1 ELSE likesCount - 1
              /\ onLikeCalls' = onLikeCalls + 1
              /\ UNCHANGED cardToasts
    /\ UNCHANGED <<notCard, user, component, isSaved, savesCount, onSaveCalls>>

\* The continuation of handleSave after its await.
SaveSettled(i, o) ==
    /\ i \in Suspended("saved_components")
    /\ cardReqs' = [cardReqs EXCEPT ![i].outcome = o]
    /\ IF o = "throw"
         THEN /\ cardToasts' = Append(cardToasts, "Failed to update save")
              /\ UNCHANGED <<isSaved, savesCount, onSaveCalls>>
         ELSE /\ isSaved' = (cardReqs[i].op = "insert")
              /\ savesCount' = IF cardReqs[i].op = "insert"
                                 THEN savesCount + 1 ELSE savesCount - 1
              /\ onSaveCalls' = onSaveCalls + 1
              /\ UNCHANGED cardToasts
    /\ UNCHANGED <<notCard, user, component, isLiked, likesCount, onLikeCalls>>

\* The auth context changes under the mounted card.
CardAuthChange == (SignIn \/ SignOut) /\ UNCHANGED <<notCard, cardVars>>

CardNext ==
    \/ CardAuthChange
    \/ HandleLike
    \/ HandleSave
    \/ \E i \in 1..Len(cardReqs), o \in Outcomes : LikeSettled(i, o)
    \/ \E i \in 1..Len(cardReqs), o \in Outcomes : SaveSettled(i, o)

----------------------------------------------------------------------------
(* ComponentCard: properties *)

LastToast == cardToasts[Len(cardToasts)]

\* The effect the toggle-on / toggle-off branch has on a flag and a counter.
Flipped(req, flagBefore, flagAfter, countBefore, countAfter) ==
    /\ flagAfter = (req.op = "insert")
    /\ countAfter = IF req.op = "insert" THEN countBefore + 1 ELSE countBefore - 1

\* C1: with no viewer signed in, a like or save toggle issues no request,
\* shows the authentication notice, leaves the flags and counters as they
\* were and does not invoke the refresh callbacks.
C1_NoViewerNoMutation ==
    [][ (user = NoUser /\ (HandleLike \/ HandleSave)) =>
          /\ cardReqs' = cardReqs
          /\ Len(cardToasts') = Len(cardToasts) + 1
          /\ cardToasts'[Len(cardToasts')] \in AuthNotices
          /\ UNCHANGED <<isLiked, isSaved, likesCount, savesCount,
                         onLikeCalls, onSaveCalls>> ]_vars

C1_Witness ==
    /\ user = NoUser
    /\ cardToasts # <<>>
    /\ LastToast \in AuthNotices
    /\ cardReqs = <<>>

C6_DoubleToggleRestores ==
    ( /\ ~component.is_liked
      /\ Len(cardReqs) = 2
      /\ \A k \in 1..2 : cardReqs[k].table = "likes" /\ cardReqs[k].outcome # "pending"
      /\ cardToasts = <<>> )
    => /\ likesCount = component.likes_count
       /\ ~isLiked
       /\ cardReqs[1].op = "insert"
       /\ cardReqs[2].op = "delete"

\* C7: when the request of a toggle fails, by a returned error value or by a
\* rejected promise, the card shows its failure notice and the flag and the
\* counter are in their toggled state afterwards.
C7_FailureNoticeAndKept ==
    [][ \A i \in 1..Len(cardReqs) :
          /\ (i \in Suspended("likes") /\ cardReqs'[i].outcome \in {"error", "throw"}) =>
                /\ cardToasts' = Append(cardToasts, "Failed to update like")
                /\ Flipped(cardReqs[i], isLiked, isLiked', likesCount, likesCount')
          /\ (i \in Suspended("saved_components")
                /\ cardReqs'[i].outcome \in {"error", "throw"}) =>
                /\ cardToasts' = Append(cardToasts, "Failed to update save")
                /\ Flipped(cardReqs[i], isSaved, isSaved', savesCount, savesCount') ]_vars

\* Toggles on table whose request was answered with outcome o.
Settled(table, o) ==
    {i \in 1..Len(cardReqs) : cardReqs[i].table = table /\ cardReqs[i].outcome = o}

\* C11: the refresh callbacks were invoked once for every toggle whose
\* request has succeeded, and for no other: not for a toggle stopped by the
\* sign-in check, not while the request is pending, and not for a toggle whose
\* request failed.
C11_CallbackOncePerSuccess ==
    /\ onLikeCalls = Cardinality(Settled("likes", "ok"))
    /\ onSaveCalls = Cardinality(Settled("saved_components", "ok"))

----------------------------------------------------------------------------
(* Home: feed assembly *)

\* Bound: fetchComponents invocations in one behaviour.
MaxFetches == 3

\* Invocations made, plus those the suspended card toggles may still make.
Budget == fetchesStarted + Len(cardPending)

SortModes == {"newest", "trending", "saved"}

\* The components table: created_at and likes_count of the rows, by id.
CreatedAt(id) == id
LikesCount(id) == CASE id = 1 -> 2 [] id = 2 -> 3 [] OTHER -> 1

\* Contents of the hosted tables: the ids in components, the ids of the
\* viewer's likes rows, and the viewer's saved_components rows, newest first.
\* The tables do not change while the view is mounted.
DbStates ==
    { [components |-> {1, 2, 3}, likes |-> {2}, saved |-> <<1, 3>>],
      [components |-> {1, 2, 3}, likes |-> {}, saved |-> <<>>],
      [components |-> {}, likes |-> {}, saved |-> <<>>] }

\* A boolean or undefined annotation of a feed row.
Flag(b) == IF b THEN "true" ELSE "false"
Undefined == "undefined"

\* Result of a membership query not yet answered / answered.
Pending == [st |-> "pending", ids |-> {}]
Answered(o, ids) == [st |-> o, ids |-> IF o = "ok" THEN ids ELSE {}]

HomeInit ==
    /\ db \in DbStates
    /\ sortBy = "newest"
    /\ components = <<>>
    /\ loading = TRUE
    /\ fetches = <<>>
    /\ cardPending = <<>>
    /\ homeToasts = 0
    /\ fetchesStarted = 0
    /\ answer = "none"

\* .order(column, {ascending: false}) over the whole components table.
OrderedIds(mode) ==
    SortSeq(SortSeq(<<1, 2, 3>>, LAMBDA a, b : a < b),
            LAMBDA a, b : IF mode = "trending"
                            THEN LikesCount(a) > LikesCount(b)
                            ELSE CreatedAt(a) > CreatedAt(b))

Restrict(ids, S) == SelectSeq(ids, LAMBDA x : x \in S)

ComponentsQuery(mode) == Restrict(OrderedIds(mode), db.components)

\* saved_components rows of the viewer joined with components (inner join).
SavedJoinQuery == Restrict(db.saved, db.components)

\* likes / saved_components rows of the viewer restricted to ids.
LikesQuery(ids) == db.likes \cap Range(ids)
SavesQuery(ids) == Range(db.saved) \cap Range(ids)

\* fetchComponents up to its first await, run by the closure that captured
\* sort mode s and viewer u.  (The requests of the members stage are issued
\* together when the components query is answered.)
StartFetch(s, u) ==
    /\ fetchesStarted' = fetchesStarted + 1
    /\ loading' = TRUE
    /\ fetches' = Append(fetches,
          [sortBy |-> s, user |-> u,
           pc |-> IF s = "saved" /\ u # NoUser THEN "savedJoin" ELSE "components",
           data |-> <<>>, likes |-> Pending, saves |-> Pending])

\* useEffect(..., [sortBy, user]) after the first render.
MountEffect ==
    /\ fetchesStarted = 0
    /\ StartFetch(sortBy, user)
    /\ UNCHANGED <<notHome, user, db, sortBy, components, cardPending,
                   homeToasts, answer>>

\* A sort button is clicked; the effect runs because sortBy changed.  The
\* Saved button is rendered for a signed-in viewer only.
SetSortBy(s) ==
    /\ fetchesStarted > 0
    /\ Budget < MaxFetches
    /\ s # sortBy
    /\ s = "saved" => user # NoUser
    /\ sortBy' = s
    /\ StartFetch(s, user)
    /\ UNCHANGED <<notHome, user, db, components, cardPending, homeToasts, answer>>

\* The auth context changes; the effect runs because user changed.
HomeAuthChange ==
    /\ fetchesStarted > 0
    /\ Budget < MaxFetches
    /\ SignIn \/ SignOut
    /\ StartFetch(sortBy, user')
    /\ UNCHANGED <<notHome, db, sortBy, components, cardPending, homeToasts, answer>>

\* A rendered card's like or save toggle, by a signed-in viewer, reaches its
\* await.  Cards are rendered when loading is false and the list is not empty.
CardToggle ==
    /\ fetchesStarted > 0
    /\ Budget < MaxFetches
    /\ ~loading
    /\ components # <<>>
    /\ user # NoUser
    /\ cardPending' = Append(cardPending, [sortBy |-> sortBy, user |-> user])
    /\ UNCHANGED <<notHome, user, db, sortBy, components, loading, fetches,
                   homeToasts, fetchesStarted, answer>>

\* The toggle's request is answered: unless it rejected, onLike / onSave, that
\* is the captured fetchComponents, is called.
CardToggleSettled(i, o) ==
    /\ i \in 1..Len(cardPending)
    /\ cardPending' = RemoveAt(cardPending, i)
    /\ IF o = "throw"
         THEN UNCHANGED <<loading, fetches, fetchesStarted>>
         ELSE StartFetch(cardPending[i].sortBy, cardPending[i].user)
    /\ UNCHANGED <<notHome, user, db, sortBy, components, homeToasts, answer>>

\* catch + finally of fetchComponents.
FetchFailed(i) ==
    /\ homeToasts' = homeToasts + 1
    /\ loading' = FALSE
    /\ fetches' = RemoveAt(fetches, i)
    /\ UNCHANGED components

\* setComponents(list) followed by finally.
FetchDone(i, list) ==
    /\ components' = list
    /\ loading' = FALSE
    /\ fetches' = RemoveAt(fetches, i)
    /\ UNCHANGED homeToasts

\* The saved-join query of fetch i is answered with outcome o.
SavedJoinAnswered(i, o) ==
    /\ i \in 1..Len(fetches)
    /\ fetches[i].pc = "savedJoin"
    /\ answer' = o
    /\ IF o # "ok"
         THEN FetchFailed(i)
         ELSE IF SavedJoinQuery # <<>>
                THEN /\ fetches' = [fetches EXCEPT ![i].pc = "savedLikes",
                                                   ![i].data = SavedJoinQuery]
                     /\ UNCHANGED <<components, loading, homeToasts>>
                ELSE FetchDone(i, <<>>)
    /\ UNCHANGED <<notHome, user, db, sortBy, cardPending, fetchesStarted>>

\* The likes query of the saved branch is answered; its error is not read.
SavedLikesAnswered(i, o) ==
    /\ i \in 1..Len(fetches)
    /\ fetches[i].pc = "savedLikes"
    /\ answer' = o
    /\ IF o = "throw"
         THEN FetchFailed(i)
         ELSE LET likedIds == Answered(o, LikesQuery(fetches[i].data)).ids
              IN  FetchDone(i, [k \in 1..Len(fetches[i].data) |->
                                  [id |-> fetches[i].data[k],
                                   is_liked |-> Flag(fetches[i].data[k] \in likedIds),
                                   is_saved |-> Flag(TRUE)]])
    /\ UNCHANGED <<notHome, user, db, sortBy, cardPending, fetchesStarted>>

\* The components query of fetch i is answered.
ComponentsAnswered(i, o) ==
    /\ i \in 1..Len(fetches)
    /\ fetches[i].pc = "components"
    /\ answer' = o
    /\ IF o # "ok"
         THEN FetchFailed(i)
         ELSE LET componentsData == ComponentsQuery(fetches[i].sortBy)
              IN  IF fetches[i].user # NoUser /\ componentsData # <<>>
                    THEN /\ fetches' = [fetches EXCEPT ![i].pc = "members",
                                                       ![i].data = componentsData]
                         /\ UNCHANGED <<components, loading, homeToasts>>
                    ELSE FetchDone(i, [k \in 1..Len(componentsData) |->
                                         [id |-> componentsData[k],
                                          is_liked |-> Undefined,
                                          is_saved |-> Undefined]])
    /\ UNCHANGED <<notHome, user, db, sortBy, cardPending, fetchesStarted>>

\* The annotated list written once both membership queries are answered.
Annotated(data, likedIds, savedIds) ==
    [k \in 1..Len(data) |->
        [id |-> data[k],
         is_liked |-> Flag(data[k] \in likedIds),
         is_saved |-> Flag(data[k] \in savedIds)]]

\* Variant of MemberAnswered that writes the list at the first answer, without
\* joining the two queries.
MemberAnsweredNoJoin(i, which, o) ==
    /\ i \in 1..Len(fetches)
    /\ fetches[i].pc = "members"
    /\ fetches[i][which].st = "pending"
    /\ answer' = o
    /\ LET f == fetches[i]
           res == Answered(o, IF which = "likes" THEN LikesQuery(f.data)
                                                 ELSE SavesQuery(f.data))
           likesResult == IF which = "likes" THEN res ELSE f.likes
           savesResult == IF which = "saves" THEN res ELSE f.saves
       IN  IF o = "throw"
             THEN FetchFailed(i)
             ELSE FetchDone(i, Annotated(f.data, likesResult.ids, savesResult.ids))
    /\ UNCHANGED <<notHome, user, db, sortBy, cardPending, fetchesStarted>>

\* One of the two membership queries of Promise.all is answered (which is
\* "likes" or "saves").  A rejection rejects Promise.all at once; otherwise
\* the continuation runs when both are answered.  Their errors are not read.
MemberAnswered(i, which, o) ==
    /\ i \in 1..Len(fetches)
    /\ fetches[i].pc = "members"
    /\ fetches[i][which].st = "pending"
    /\ answer' = o
    /\ LET f == fetches[i]
           res == Answered(o, IF which = "likes" THEN LikesQuery(f.data)
                                                 ELSE SavesQuery(f.data))
           likesResult == IF which = "likes" THEN res ELSE f.likes
           savesResult == IF which = "saves" THEN res ELSE f.saves
       IN  IF o = "throw"
             THEN FetchFailed(i)
             ELSE IF likesResult.st # "pending" /\ savesResult.st # "pending"
                    THEN FetchDone(i, Annotated(f.data, likesResult.ids, savesResult.ids))
                    ELSE /\ fetches' = [fetches EXCEPT ![i][which] = res]
                         /\ UNCHANGED <<components, loading, homeToasts>>
    /\ UNCHANGED <<notHome, user, db, sortBy, cardPending, fetchesStarted>>

HomeNext ==
    \/ MountEffect
    \/ \E s \in SortModes : SetSortBy(s)
    \/ HomeAuthChange
    \/ CardToggle
    \/ \E i \in 1..Len(cardPending), o \in Outcomes : CardToggleSettled(i, o)
    \/ \E i \in 1..Len(fetches), o \in Outcomes : SavedJoinAnswered(i, o)
    \/ \E i \in 1..Len(fetches), o \in Outcomes : SavedLikesAnswered(i, o)
    \/ \E i \in 1..Len(fetches), o \in Outcomes : ComponentsAnswered(i, o)
    \/ \E i \in 1..Len(fetches), which \in {"likes", "saves"}, o \in Outcomes :
          MemberAnswered(i, which, o)

----------------------------------------------------------------------------
(* Home: properties *)

\* The viewer's saved_components rows.
SavedRowsOf(u) == IF u = NoUser THEN {} ELSE Range(db.saved)

\* C2: whenever the sort mode is 'saved' and the feed is displayed (loading is
\* false), every component of the feed list has a saved_components row of the
\* current viewer.
C2_SavedFeedOnlySaved ==
    (sortBy = "saved" /\ ~loading) =>
        \A k \in 1..Len(components) : components[k].id \in SavedRowsOf(user)

\* The list is in the order of the comparator of mode (no comparator is
\* stated for 'saved').
InOrderOf(mode, list) ==
    \A j, k \in 1..Len(list) :
        j < k =>
            CASE mode = "newest" -> CreatedAt(list[j].id) >= CreatedAt(list[k].id)
              [] mode = "trending" -> LikesCount(list[j].id) >= LikesCount(list[k].id)
              [] OTHER -> TRUE

\* C3: once every fetch that was started has completed, none of them with a
\* failure notice, the feed list is in the order of the selected sort mode.
C3_FeedOrderedBySelectedMode ==
    (fetchesStarted > 0 /\ fetches = <<>> /\ cardPending = <<>> /\ homeToasts = 0)
        => InOrderOf(sortBy, components)

\* Fetch i ends in this step.
Ends(i) == Len(fetches') < Len(fetches) /\ fetches' = RemoveAt(fetches, i)

\* C4: a fetch one of whose requests failed (by a returned error value or a
\* rejected promise) ends with a failure notice shown, the feed list not
\* written and loading reset to false.
C4_FailedFetchKeepsFeed ==
    [][ \A i \in 1..Len(fetches) :
          ( /\ Ends(i)
            /\ answer' \in Outcomes
            /\ \/ answer' \in {"error", "throw"}
               \/ fetches[i].likes.st = "error"
               \/ fetches[i].saves.st = "error"
            /\ \/ SavedJoinAnswered(i, answer')
               \/ SavedLikesAnswered(i, answer')
               \/ ComponentsAnswered(i, answer')
               \/ \E which \in {"likes", "saves"} : MemberAnswered(i, which, answer') )
          => /\ homeToasts' = homeToasts + 1
             /\ components' = components
             /\ loading' = FALSE ]_vars

\* The ids a membership query of fetch f has returned, the answer of this
\* step included (a failed query returns no data).
ResultIds(f, which) ==
    IF f[which].st # "pending"
      THEN f[which].ids
      ELSE IF answer' = "ok"
             THEN (IF which = "likes" THEN db.likes ELSE Range(db.saved)) \cap Range(f.data)
             ELSE {}

\* The list is data, in order, marked liked / saved exactly for the ids of
\* the two results.
AnnotatedFrom(list, data, likedIds, savedIds) ==
    /\ Len(list) = Len(data)
    /\ \A k \in 1..Len(data) :
          /\ list[k].id = data[k]
          /\ list[k].is_liked = "true" <=> data[k] \in likedIds
          /\ list[k].is_liked = "false" <=> data[k] \notin likedIds
          /\ list[k].is_saved = "true" <=> data[k] \in savedIds
          /\ list[k].is_saved = "false" <=> data[k] \notin savedIds

\* The feed never holds a row annotated from one of the results only.
NoHalfAnnotation ==
    \A k \in 1..Len(components) :
        components[k].is_liked = Undefined <=> components[k].is_saved = Undefined

\* The components query of a newest / trending fetch is answered: with a
\* viewer and a non-empty list both membership queries are in flight over the
\* fetched ids and nothing is written yet; with no viewer or an empty list no
\* membership query is issued and the fetch ends.
MembersIssuedTogether ==
    \A i \in 1..Len(fetches) :
        ComponentsAnswered(i, "ok") =>
            IF fetches[i].user # NoUser /\ db.components # {}
              THEN /\ Len(fetches') = Len(fetches)
                   /\ fetches'[i].pc = "members"
                   /\ Range(fetches'[i].data) = db.components
                   /\ fetches'[i].likes.st = "pending"
                   /\ fetches'[i].saves.st = "pending"
                   /\ components' = components
              ELSE Ends(i)

\* The other membership query of fetch i is still to be answered.
OtherPending(i, which) ==
    fetches[i][IF which = "likes" THEN "saves" ELSE "likes"].st = "pending"

\* C12 (as stated): both membership queries are issued together; every fetch
\* that issued them writes the list exactly once, when the second of them is
\* answered, in either order, each row marked from both results; no row is
\* annotated from one result only.
C12_MembersJoinedAlwaysWritten ==
    /\ []NoHalfAnnotation
    /\ [][ /\ MembersIssuedTogether
           /\ \A i \in 1..Len(fetches), which \in {"likes", "saves"}, o \in Outcomes :
                 MemberAnswered(i, which, o) =>
                    IF OtherPending(i, which)
                      THEN /\ components' = components
                           /\ Len(fetches') = Len(fetches)
                      ELSE /\ Ends(i)
                           /\ AnnotatedFrom(components', fetches[i].data,
                                            ResultIds(fetches[i], "likes"),
                                            ResultIds(fetches[i], "saves")) ]_vars

\* C12 (amended): as above, but a membership query that rejects ends the
\* fetch at once without a write; the list is written exactly once when both
\* are answered without rejecting.
C12_MembersJoinedBeforeWrite ==
    /\ []NoHalfAnnotation
    /\ [][ /\ MembersIssuedTogether
           /\ \A i \in 1..Len(fetches), which \in {"likes", "saves"}, o \in Outcomes :
                 MemberAnswered(i, which, o) =>
                    IF o = "throw"
                      THEN /\ Ends(i)
                           /\ components' = components
                      ELSE IF OtherPending(i, which)
                             THEN /\ components' = components
                                  /\ Len(fetches') = Len(fetches)
                             ELSE /\ Ends(i)
                                  /\ AnnotatedFrom(components', fetches[i].data,
                                                   ResultIds(fetches[i], "likes"),
                                                   ResultIds(fetches[i], "saves")) ]_vars

\* A newest fetch of the viewer wrote rows marked from both results: row 2
\* liked and not saved, rows 3 and 1 saved and not liked.
C12_Witness ==
    /\ fetches = <<>>
    /\ sortBy = "newest"
    /\ user # NoUser
    /\ components = <<[id |-> 3, is_liked |-> "false", is_saved |-> "true"],
                      [id |-> 2, is_liked |-> "true", is_saved |-> "false"],
                      [id |-> 1, is_liked |-> "false", is_saved |-> "true"]>>

\* C13: loading is true whenever a fetch is in flight, and false whenever
\* none is in flight once the first fetch has started.
C13_LoadingIffFetchInFlight ==
    /\ fetches # <<>> => loading
    /\ (fetches = <<>> /\ fetchesStarted > 0) => ~loading

----------------------------------------------------------------------------
(* Publish: the form *)

\* Bound: handleSubmit invocations in one behaviour.
MaxSubmits == 2

\* Texts are sequences of characters; " " stands for any white space.
RECURSIVE TrimStart(_)
TrimStart(t) ==
    IF t # <<>> /\ Head(t) = " " THEN TrimStart(Tail(t)) ELSE t

RECURSIVE TrimEnd(_)
TrimEnd(t) ==
    IF t # <<>> /\ t[Len(t)] = " " THEN TrimEnd(SubSeq(t, 1, Len(t) - 1)) ELSE t

\* String.prototype.trim
Trim(t) == TrimEnd(TrimStart(t))

\* Variant of IsBlank that does not trim.
IsBlankNoTrim(t) == t = <<>>

\* !text.trim(): the empty string is falsy.
IsBlank(t) == Trim(t) = <<>>

Null == <<"null">>
PublicUrl == <<"public-url">>
NoFile == "null"
Idle == [pc |-> "idle"]

\* What can be typed into the fields.
TitleInputs == {<<>>, <<" ">>, <<" ", "t", " ">>}
CodeInputs == {<<>>, <<" ", " ">>, <<"c", " ">>}
DescriptionInputs == {<<" ">>, <<"d", " ">>}
TagInputs == {<<>>, <<" ">>, <<"a">>, <<" ", "a">>, <<"b", " ">>, <<"c">>,
              <<"a", " ", "b">>}
Files == {"shot.png"}

PublishInit ==
    /\ formData = [title |-> <<>>, description |-> <<>>, code |-> <<>>,
                   tags |-> <<>>, tagInput |-> <<>>]
    /\ previewImage = NoFile
    /\ pubLoading = FALSE
    /\ submit = Idle
    /\ pubReqs = <<>>
    /\ pubToasts = <<>>
    /\ location = "/publish"

\* The form is rendered (and its handlers can run) for a signed-in viewer on
\* the publish route; the viewer does not change while it is mounted.
FormRendered == user # NoUser /\ location = "/publish"

\* useEffect: an unauthenticated visitor is sent to the sign-in view.
RedirectToAuth ==
    /\ user = NoUser
    /\ location = "/publish"
    /\ location' = "/auth"
    /\ UNCHANGED <<notPublish, user, formData, previewImage, pubLoading, submit,
                   pubReqs, pubToasts>>

\* onChange of the title, description, code and tag inputs.
SetField(field, text) ==
    /\ FormRendered
    /\ formData[field] # text
    /\ formData' = [formData EXCEPT ![field] = text]
    /\ UNCHANGED <<notPublish, user, previewImage, pubLoading, submit, pubReqs,
                   pubToasts, location>>

\* onChange of the file input.
SetPreviewImage(file) ==
    /\ FormRendered
    /\ previewImage # file
    /\ previewImage' = file
    /\ UNCHANGED <<notPublish, user, formData, pubLoading, submit, pubReqs,
                   pubToasts, location>>

\* Variant of HandleTagAdd without the includes() test.
HandleTagAddNoDuplicateCheck ==
    /\ FormRendered
    /\ LET tag == Trim(formData.tagInput)
       IN  IF tag # <<>>
             THEN formData' = [formData EXCEPT !.tags = Append(@, tag),
                                               !.tagInput = <<>>]
             ELSE UNCHANGED formData
    /\ UNCHANGED <<notPublish, user, previewImage, pubLoading, submit, pubReqs,
                   pubToasts, location>>

\* handleTagAdd: append the trimmed input unless it is empty or present.
HandleTagAdd ==
    /\ FormRendered
    /\ LET tag == Trim(formData.tagInput)
       IN  IF tag # <<>> /\ tag \notin Range(formData.tags)
             THEN formData' = [formData EXCEPT !.tags = Append(@, tag),
                                               !.tagInput = <<>>]
             ELSE UNCHANGED formData
    /\ UNCHANGED <<notPublish, user, previewImage, pubLoading, submit, pubReqs,
                   pubToasts, location>>

\* handleTagRemove: filter the tag out.
HandleTagRemove(tagToRemove) ==
    /\ FormRendered
    /\ formData' = [formData EXCEPT
                       !.tags = SelectSeq(@, LAMBDA tag : tag # tagToRemove)]
    /\ UNCHANGED <<notPublish, user, previewImage, pubLoading, submit, pubReqs,
                   pubToasts, location>>

\* handleSubmit invocations so far: each showed exactly one notice, unless it
\* is still suspended.
Submits == Len(pubToasts) + (IF submit.pc = "idle" THEN 0 ELSE 1)

\* The row handleSubmit inserts, from the form as captured by the handler.
ComponentRow(fd, uid, url) ==
    [user_id |-> uid,
     title |-> Trim(fd.title),
     description |-> IF Trim(fd.description) = <<>> THEN Null ELSE Trim(fd.description),
     code |-> Trim(fd.code),
     tags |-> fd.tags,
     preview_image_url |-> url]

\* A request as logged in pubReqs.
Request(kind) == [kind |-> kind, outcome |-> "pending"]

\* handleSubmit suspended at the upload, holding the form and viewer it
\* was invoked with.
AtUpload(fd, uid) == [pc |-> "upload", formData |-> fd, user |-> uid]

\* handleSubmit suspended at the insert of row; uploadError tells whether the
\* upload before it returned an error.
AtInsert(row, uploadError) == [pc |-> "insert", row |-> row, uploadError |-> uploadError]

\* handleSubmit up to its first await.  The submit button is disabled while
\* loading is true.
HandleSubmit ==
    /\ FormRendered
    /\ ~pubLoading
    /\ Submits < MaxSubmits
    /\ IF IsBlank(formData.title) \/ IsBlank(formData.code)
         THEN /\ pubToasts' = Append(pubToasts, "Please fill in all required fields")
              /\ UNCHANGED <<pubLoading, submit, pubReqs>>
         ELSE /\ pubLoading' = TRUE
              /\ IF previewImage # NoFile
                   THEN /\ pubReqs' = Append(pubReqs, Request("upload"))
                        /\ submit' = AtUpload(formData, user)
                   ELSE /\ pubReqs' = Append(pubReqs, Request("insert"))
                        /\ submit' = AtInsert(ComponentRow(formData, user, Null), FALSE)
              /\ UNCHANGED pubToasts
    /\ UNCHANGED <<notPublish, user, formData, previewImage, location>>

\* catch + finally of handleSubmit.
SubmitFailed ==
    /\ pubToasts' = Append(pubToasts, "Failed to publish component")
    /\ pubLoading' = FALSE
    /\ submit' = Idle
    /\ UNCHANGED location

\* The answer o to the request issued last is recorded.
AnswerLast(reqs, o) == [reqs EXCEPT ![Len(reqs)].outcome = o]

\* The upload is answered: a returned error is logged and the submit goes on
\* without a preview image; then the insert is issued.
UploadAnswered(o) ==
    /\ submit.pc = "upload"
    /\ IF o = "throw"
         THEN /\ pubReqs' = AnswerLast(pubReqs, o)
              /\ SubmitFailed
         ELSE /\ pubReqs' = Append(AnswerLast(pubReqs, o), Request("insert"))
              /\ submit' = AtInsert(ComponentRow(submit.formData, submit.user,
                                        IF o = "ok" THEN PublicUrl ELSE Null),
                                    o = "error")
              /\ UNCHANGED <<pubToasts, pubLoading, location>>
    /\ UNCHANGED <<notPublish, user, formData, previewImage>>

\* Variant of InsertAnswered that does not read the returned error.
InsertAnsweredIgnoresError(o) ==
    /\ submit.pc = "insert"
    /\ pubReqs' = AnswerLast(pubReqs, o)
    /\ IF o = "throw"
         THEN SubmitFailed
         ELSE /\ pubToasts' = Append(pubToasts, "Component published successfully!")
              /\ location' = "/"
              /\ pubLoading' = FALSE
              /\ submit' = Idle
    /\ UNCHANGED <<notPublish, user, formData, previewImage>>

\* The insert is answered: success notice and navigation to the feed, or the
\* catch block; finally in both cases.
InsertAnswered(o) ==
    /\ submit.pc = "insert"
    /\ pubReqs' = AnswerLast(pubReqs, o)
    /\ IF o # "ok"
         THEN SubmitFailed
         ELSE /\ pubToasts' = Append(pubToasts, "Component published successfully!")
              /\ location' = "/"
              /\ pubLoading' = FALSE
              /\ submit' = Idle
    /\ UNCHANGED <<notPublish, user, formData, previewImage>>

\* Editing the tag list.
TagsNext ==
    \/ \E text \in TagInputs : SetField("tagInput", text)
    \/ HandleTagAdd
    \/ \E text \in TagInputs : HandleTagRemove(Trim(text))

\* Filling in and submitting the form.
PublishNext ==
    \/ RedirectToAuth
    \/ \E text \in TitleInputs : SetField("title", text)
    \/ \E text \in DescriptionInputs : SetField("description", text)
    \/ \E text \in CodeInputs : SetField("code", text)
    \/ \E text \in {<<>>, <<" ", "a">>} : SetField("tagInput", text)
    \/ HandleTagAdd
    \/ HandleTagRemove(<<"a">>)
    \/ \E file \in Files \cup {NoFile} : SetPreviewImage(file)
    \/ HandleSubmit
    \/ \E o \in Outcomes : UploadAnswered(o)
    \/ \E o \in Outcomes : InsertAnswered(o)

----------------------------------------------------------------------------
(* Publish: properties *)

\* A request is issued in this step.
Issues(kind) ==
    /\ Len(pubReqs') = Len(pubReqs) + 1
    /\ pubReqs'[Len(pubReqs')].kind = kind

OnlyWhiteSpace(t) == \A k \in 1..Len(t) : t[k] = " "

NonEmptyTrimmed(t) == t # <<>> /\ t[1] # " " /\ t[Len(t)] # " "

\* C8: a submit with a title or code that is empty or only white space issues
\* no upload and no insert, shows a notice, and leaves the form fields and the
\* loading flag (false) alone; and every insert issued carries a non-empty
\* trimmed title, a non-empty trimmed code and the viewer's id as owner.
C8_BlankRejectedInsertsValid ==
    [][ /\ ( /\ HandleSubmit
             /\ OnlyWhiteSpace(formData.title) \/ OnlyWhiteSpace(formData.code) )
           => /\ pubReqs' = pubReqs
              /\ submit' = submit
              /\ Len(pubToasts') = Len(pubToasts) + 1
              /\ formData' = formData
              /\ ~pubLoading /\ ~pubLoading'
        /\ Issues("insert")
           => /\ submit'.pc = "insert"
              /\ NonEmptyTrimmed(submit'.row.title)
              /\ NonEmptyTrimmed(submit'.row.code)
              /\ submit'.row.user_id = user
              /\ user # NoUser ]_vars

\* A submit with a white-space title was rejected while the code was valid.
C8_Witness ==
    /\ formData.title = <<" ">>
    /\ formData.code = <<"c", " ">>
    /\ pubToasts # <<>>
    /\ pubToasts[Len(pubToasts)] = "Please fill in all required fields"
    /\ pubReqs = <<>>

\* Position of tag x in the list (0 when absent).
PosOf(list, x) ==
    IF x \in Range(list) THEN CHOOSE k \in 1..Len(list) : list[k] = x ELSE 0

NoDuplicates(list) == \A j, k \in 1..Len(list) : list[j] = list[k] => j = k

\* C9: adding a tag already in the list and removing a tag not in it leave
\* the list unchanged; the list never holds a duplicate or an empty tag; and
\* tags that stay keep their relative order, a new tag going to the end.
C9_TagListOrderedSet ==
    /\ [](NoDuplicates(formData.tags) /\ <<>> \notin Range(formData.tags))
    /\ [][ /\ (HandleTagAdd /\ Trim(formData.tagInput) \in Range(formData.tags))
              => formData'.tags = formData.tags
           /\ \A t \in {Trim(text) : text \in TagInputs} :
                 (HandleTagRemove(t) /\ t \notin Range(formData.tags))
                    => formData'.tags = formData.tags
           /\ \A x, y \in Range(formData'.tags) :
                 PosOf(formData'.tags, x) < PosOf(formData'.tags, y)
                    => \/ y \notin Range(formData.tags)
                       \/ /\ x \in Range(formData.tags)
                          /\ PosOf(formData.tags, x) < PosOf(formData.tags, y) ]_vars

\* Three tags were added, the first was removed and added again: it is last.
C9_Witness ==
    /\ formData.tags = <<<<"b">>, <<"c">>, <<"a">>>>
    /\ formData.tagInput = <<" ", "a">>

\* A step of handleSubmit past its validation.
SubmitStep ==
    \/ HandleSubmit /\ submit'.pc # "idle"
    \/ \E o \in Outcomes : UploadAnswered(o)
    \/ \E o \in Outcomes : InsertAnswered(o)

\* The submit ends in this step.
SubmitEnds == submit.pc # "idle" /\ submit'.pc = "idle"

Succeeded ==
    /\ pubReqs'[Len(pubReqs')] = [kind |-> "insert", outcome |-> "ok"]
    /\ pubToasts' = Append(pubToasts, "Component published successfully!")
    /\ location' = "/"

FailedWithNotice ==
    /\ pubReqs'[Len(pubReqs')].outcome \in {"error", "throw"}
    /\ pubToasts' = Append(pubToasts, "Failed to publish component")
    /\ location' = location
    /\ formData' = formData

----------------------------------------------------------------------------
(* Specifications: one per view, the other views idle in their initial state *)

\* The view a specification does not exercise stays as constructed (the card
\* with the props of an unannotated row, Home over empty tables).
CardIdle ==
    /\ CardInit
    /\ component = [id |-> 1, is_liked |-> FALSE, likes_count |-> 0,
                    is_saved |-> FALSE, saves_count |-> 0]

HomeIdle ==
    /\ HomeInit
    /\ db = [components |-> {}, likes |-> {}, saved |-> <<>>]

InitPublish ==
    /\ user \in Users \cup {NoUser}
    /\ PublishInit
    /\ CardIdle
    /\ HomeIdle

InitCard ==
    /\ user \in Users \cup {NoUser}
    /\ CardInit
    /\ HomeIdle
    /\ PublishInit

InitHome ==
    /\ user \in Users \cup {NoUser}
    /\ HomeInit
    /\ CardIdle
    /\ PublishInit

SpecCard == InitCard /\ [][CardNext]_vars

SpecHome == InitHome /\ [][HomeNext]_vars

SpecTags == InitPublish /\ [][TagsNext]_vars

SpecPublish == InitPublish /\ [][PublishNext]_vars

====
